---- MODULE Spec2Model ----
(***************************************************************************)
(* A model of the packed_bits! macro of src/lib.rs: the constructor `new`  *)
(* it generates (the mask-and-shift loop) and the accessors generated by   *)
(* the recursive @impl_getters rules, over the unsigned storage types      *)
(* whose arithmetic fits the model checker's integers (u8 and u16).        *)
(*                                                                         *)
(* Types, as rustc infers them in the expansion: `fields`, `packed`, the   *)
(* literal 1 of the mask and the accessors' results have the storage type; *)
(* `bit_sizes` and `offset` are only ever shift amounts and one another's  *)
(* addends, so they fall back to i32.  A shift of a W-bit integer by an    *)
(* amount >= W is an arithmetic overflow: a build with overflow checks (the*)
(* dev profile) panics, a build without them (the release profile) shifts  *)
(* by the amount reduced modulo W.  The build is an input of the model.    *)
(***************************************************************************)
EXTENDS Integers, Sequences, FiniteSets

VARIABLES
    storage,          \* W: the bit width of $storage
    overflow_checks,  \* TRUE: the build panics on arithmetic overflow
    bit_sizes,        \* the declared widths, [$($bits),*]
    fields,           \* the arguments of new, [$($field),*]
    pc,               \* "new": in the constructor loop; "built": new has
                      \* returned; "called": so has one more call; "panicked"
    i,                \* the loop index of new, 0-based as in the source
    packed,           \* the accumulator of new
    offset,           \* the running offset of new
    mask,             \* the last mask computed, by new or by an accessor,
                      \* and the width it was computed from
    contrib,          \* the value OR-ed into packed by the last iteration
    self_0,           \* self.0 of the instance new returned
    ret               \* the caller's last call after that and what it returned

vars == <<storage, overflow_checks, bit_sizes, fields, pc, i, packed, offset,
          mask, contrib, self_0, ret>>

----------------------------------------------------------------------------
(* Bounds of the model. *)

\* The generic declarations have at most MaxFields fields ...
MaxFields == 3
\* ... whose widths sum to at most the storage width plus MaxOver.
MaxOver == 1

----------------------------------------------------------------------------
(* The storage type's arithmetic. *)

\* The outcome of an operation that panics (overflow checks on).
Panic == -1

Pow2(k) == 2 ^ k

RECURSIVE BitAnd(_, _)
\* a & b
BitAnd(a, b) ==
    IF a = 0 \/ b = 0 THEN 0
    ELSE (a % 2) * (b % 2) + 2 * BitAnd(a \div 2, b \div 2)

RECURSIVE BitOr(_, _)
\* a | b
BitOr(a, b) ==
    IF a = 0 THEN b
    ELSE IF b = 0 THEN a
    ELSE (IF a % 2 = 1 \/ b % 2 = 1 THEN 1 ELSE 0)
         + 2 * BitOr(a \div 2, b \div 2)

\* x << k in a W-bit unsigned type: bits shifted past bit W-1 are dropped; a
\* shift amount >= W overflows.
Shl(W, oc, x, k) ==
    IF k >= W
    THEN IF oc THEN Panic ELSE (x * Pow2(k % W)) % Pow2(W)
    ELSE (x * Pow2(k)) % Pow2(W)

\* x >> k in a W-bit unsigned type; a shift amount >= W overflows.
Shr(W, oc, x, k) ==
    IF k >= W
    THEN IF oc THEN Panic ELSE x \div Pow2(k % W)
    ELSE x \div Pow2(k)

\* a - b in a W-bit unsigned type.
Sub(W, oc, a, b) ==
    IF a >= b THEN a - b
    ELSE IF oc THEN Panic ELSE a - b + Pow2(W)

\* A mask one bit too wide: (1 << (bits + 1)) - 1.
MaskOffByOne(W, oc, bits) ==
    LET one == Shl(W, oc, 1, bits + 1)
    IN  IF one = Panic THEN Panic ELSE Sub(W, oc, one, 1)

\* (1 << bits) - 1, the mask of a field of width `bits`, as new and every
\* accessor compute it.
Mask(W, oc, bits) ==
    LET one == Shl(W, oc, 1, bits)
    IN  IF one = Panic THEN Panic ELSE Sub(W, oc, one, 1)

\* A contribution that is shifted but not masked: fields[i] << offset.
ContributionUnmasked(W, oc, field, bits, off) == Shl(W, oc, field, off)

\* A contribution that is masked but not shifted.
ContributionUnshifted(W, oc, field, bits, off) ==
    LET m == Mask(W, oc, bits)
    IN  IF m = Panic THEN Panic ELSE BitAnd(field, m)

\* (fields[i] & ((1 << bit_sizes[i]) - 1)) << offset, the right-hand side of
\* the loop's assignment.
Contribution(W, oc, field, bits, off) ==
    LET m == Mask(W, oc, bits)
    IN  IF m = Panic THEN Panic ELSE Shl(W, oc, BitAnd(field, m), off)

----------------------------------------------------------------------------
(* The constructor, as one call. *)

RECURSIVE NewFrom(_, _, _, _, _, _, _)
\* The loop of new from iteration k (0-based) on, with accumulator p and
\* running offset off.
NewFrom(W, oc, fs, bs, k, p, off) ==
    IF k >= Len(fs) THEN p
    ELSE LET c == Contribution(W, oc, fs[k + 1], bs[k + 1], off)
         IN  IF c = Panic THEN Panic
             ELSE NewFrom(W, oc, fs, bs, k + 1, BitOr(p, c), off + bs[k + 1])

\* new(fs): self.0 of the instance returned, or Panic.
new(W, oc, fs, bs) == NewFrom(W, oc, fs, bs, 0, 0, 0)

----------------------------------------------------------------------------
(* The accessors. *)

\* An accessor recursion that hands on $first_bits where it should hand on
\* $offset + $first_bits.
GetterOffsetStale(bs, f) == bs[f - 1]

RECURSIVE GetterOffset(_, _)
\* The $offset expression the @impl_getters recursion hands to the accessor
\* of field f (1-based, f >= 2): $first_bits for the second field, then
\* $offset + $first_bits.
GetterOffset(bs, f) ==
    IF f = 2 THEN bs[1] ELSE GetterOffset(bs, f - 1) + bs[f - 1]

\* The accessor of field f (1-based) applied to self.0 = s.  The first field's
\* accessor has no shift.
getter(W, oc, s, bs, f) ==
    IF f = 1
    THEN LET m == Mask(W, oc, bs[1])
         IN  IF m = Panic THEN Panic ELSE BitAnd(s, m)
    ELSE LET sh == Shr(W, oc, s, GetterOffset(bs, f))
         IN  IF sh = Panic THEN Panic
             ELSE LET m == Mask(W, oc, bs[f])
                  IN  IF m = Panic THEN Panic ELSE BitAnd(sh, m)

----------------------------------------------------------------------------
(* Declarations and arguments. *)

RECURSIVE SumTo(_, _)
\* The sum of the first k widths of bs.
SumTo(bs, k) == IF k = 0 THEN 0 ELSE SumTo(bs, k - 1) + bs[k]

\* The declaration fits its storage type.
Fits(W, bs) == SumTo(bs, Len(bs)) <= W

\* The storage types of the generic declarations.
GenericStorages == {8}

\* Every list of 1..MaxFields widths in 1..W that sums to at most W + MaxOver:
\* fitting declarations, a single full-width field, fields that straddle bit W
\* and fields that start at or above bit W.
WidthLists(W) ==
    { bs \in UNION { [1..n -> 1..W] : n \in 1..MaxFields } :
        SumTo(bs, Len(bs)) <= W + MaxOver }

\* The arguments tried for a field of width b: the least and greatest values in
\* range, the least value out of range and the greatest value of the type.
InputValues(W, b) ==
    {0, Pow2(b) - 1, Pow2(b), Pow2(W) - 1} \cap (0 .. Pow2(W) - 1)

RECURSIVE ArgumentsTo(_, _, _)
\* The argument lists tried for the first k fields of a declaration.
ArgumentsTo(W, bs, k) ==
    IF k = 0 THEN {<< >>}
    ELSE { Append(fs, v) : fs \in ArgumentsTo(W, bs, k - 1),
                           v \in InputValues(W, bs[k]) }

\* The u8 and u16 declarations of the test module and the arguments its tests
\* pass (Time is a u32).
Date == [storage |-> 16, bit_sizes |-> <<5, 4, 7>>]
Rgb565 == [storage |-> 16, bit_sizes |-> <<5, 6, 5>>]
TcpFlags == [storage |-> 8, bit_sizes |-> <<1, 1, 1, 1, 1, 1, 1, 1>>]

\* (byte & 1, (byte >> 1) & 1, ..., (byte >> 7) & 1)
BitsOf(byte) == [k \in 1..8 |-> (byte \div Pow2(k - 1)) % 2]

TestScenarios ==
    { [storage |-> Date.storage, bit_sizes |-> Date.bit_sizes,
       fields |-> <<day, month, year>>] :
        day \in {0, 1, 15, 25, 31}, month \in {0, 1, 6, 12, 15},
        year \in {0, 50, 99, 127} }
    \cup
    { [storage |-> Rgb565.storage, bit_sizes |-> Rgb565.bit_sizes,
       fields |-> <<blue, green, red>>] :
        blue \in {0, 31}, green \in {0, 63}, red \in {0, 31} }
    \cup
    { [storage |-> TcpFlags.storage, bit_sizes |-> TcpFlags.bit_sizes,
       fields |-> BitsOf(byte)] : byte \in 0..255 }

----------------------------------------------------------------------------
(* The state machine: one declaration, one call of new, then one call of an *)
(* accessor or one more call of new with one argument changed.              *)

\* No mask has been computed yet.
NoMask == [bits |-> 0, val |-> 0]

\* ret.call is "get" after a call of the accessor of ret.field, whose result is
\* ret.val, and "new" after a call of new with the argument ret.arg in the
\* position of ret.field, whose instance holds self.0 = ret.val.
NoCall == [call |-> "none", field |-> 0, arg |-> 0, val |-> 0]

Init ==
    /\ \/ /\ storage \in GenericStorages
          /\ bit_sizes \in WidthLists(storage)
          /\ fields \in ArgumentsTo(storage, bit_sizes, Len(bit_sizes))
       \/ \E sc \in TestScenarios :
             /\ storage = sc.storage
             /\ bit_sizes = sc.bit_sizes
             /\ fields = sc.fields
    /\ overflow_checks \in BOOLEAN
    /\ pc = "new"
    /\ i = 0
    /\ packed = 0
    /\ offset = 0
    /\ mask = NoMask
    /\ contrib = 0
    /\ self_0 = 0
    /\ ret = NoCall

\* One iteration of `for i in 0..fields.len()`.
Iterate ==
    /\ pc = "new"
    /\ i < Len(fields)
    /\ mask' = [bits |-> bit_sizes[i + 1],
                val |-> Mask(storage, overflow_checks, bit_sizes[i + 1])]
    /\ LET c == Contribution(storage, overflow_checks, fields[i + 1],
                             bit_sizes[i + 1], offset)
       IN  IF c = Panic
           THEN /\ pc' = "panicked"
                /\ UNCHANGED <<i, packed, offset, contrib>>
           ELSE /\ packed' = BitOr(packed, c)
                /\ contrib' = c
                /\ offset' = offset + bit_sizes[i + 1]
                /\ i' = i + 1
                /\ pc' = pc
    /\ UNCHANGED <<storage, overflow_checks, bit_sizes, fields, self_0, ret>>

\* Self(packed)
Return ==
    /\ pc = "new"
    /\ i >= Len(fields)
    /\ self_0' = packed
    /\ pc' = "built"
    /\ UNCHANGED <<storage, overflow_checks, bit_sizes, fields, i, packed,
                   offset, mask, contrib, ret>>

\* A call of the accessor of field f (1-based) on the instance.
Get(f) ==
    /\ pc = "built"
    /\ LET r == getter(storage, overflow_checks, self_0, bit_sizes, f)
       IN  /\ ret' = [call |-> "get", field |-> f, arg |-> 0, val |-> r]
           /\ pc' = IF r = Panic THEN "panicked" ELSE "called"
    /\ mask' = IF f > 1 /\ Shr(storage, overflow_checks, self_0,
                                GetterOffset(bit_sizes, f)) = Panic
               THEN mask
               ELSE [bits |-> bit_sizes[f],
                     val |-> Mask(storage, overflow_checks, bit_sizes[f])]
    /\ UNCHANGED <<storage, overflow_checks, bit_sizes, fields, i, packed,
                   offset, contrib, self_0>>

\* Another call of new, whose arguments differ from the first call's only in
\* the position of field f, where v is passed.
NewOther(f, v) ==
    /\ pc = "built"
    /\ v # fields[f]
    /\ LET r == new(storage, overflow_checks, [fields EXCEPT ![f] = v],
                    bit_sizes)
       IN  /\ ret' = [call |-> "new", field |-> f, arg |-> v, val |-> r]
           /\ pc' = IF r = Panic THEN "panicked" ELSE "called"
    /\ UNCHANGED <<storage, overflow_checks, bit_sizes, fields, i, packed,
                   offset, mask, contrib, self_0>>

Next ==
    \/ Iterate
    \/ Return
    \/ \E f \in 1..Len(fields) : Get(f)
    \/ \E f \in 1..Len(fields) :
          \E v \in InputValues(storage, bit_sizes[f]) : NewOther(f, v)

Spec == Init /\ [][Next]_vars

----------------------------------------------------------------------------
(* The layout the documentation describes, in plain arithmetic. *)

\* The fields of the declaration, 1-based.
Fields == 1 .. Len(bit_sizes)

\* offset_k = b_1 + ... + b_(k-1)
OffsetOf(k) == SumTo(bit_sizes, k - 1)

\* The argument of field k is within its declared width.
InRange(k) == fields[k] < Pow2(bit_sizes[k])

RECURSIVE Layout(_)
\* The sum over the first n fields of (v_k mod 2^b_k) * 2^offset_k.
Layout(n) ==
    IF n = 0 THEN 0
    ELSE Layout(n - 1)
         + (fields[n] % Pow2(bit_sizes[n])) * Pow2(OffsetOf(n))

\* new has returned an instance.
Built == pc \in {"built", "called"}

----------------------------------------------------------------------------
(* Claims. *)

\* C1. Round trip: in a declaration whose widths sum to at most W, called with
\* every argument within its field's width, new returns an instance and each
\* accessor returns exactly the argument passed in its field's position.
RoundTrip ==
    (Fits(storage, bit_sizes) /\ \A k \in Fields : InRange(k))
        => /\ pc # "panicked"
           /\ ret.call = "get" => ret.val = fields[ret.field]

LayoutIsSum ==
    (Fits(storage, bit_sizes) /\ Built) => self_0 = Layout(Len(bit_sizes))

\* C5. No runtime failure: no call of new and no call of an accessor panics,
\* whatever the declaration and the arguments.
NoRuntimeFailure == pc # "panicked"

\* C6. Over-capacity wrap: when the widths sum to more than W, new returns an
\* instance that stores the unbounded packing reduced modulo 2^W, and every
\* field that lies wholly below bit W reads back its truncated argument.
OverCapacityWrap ==
    ~Fits(storage, bit_sizes)
        => /\ pc # "panicked"
           /\ Built => self_0 = Layout(Len(bit_sizes)) % Pow2(storage)
           /\ (ret.call = "get"
                 /\ OffsetOf(ret.field) + bit_sizes[ret.field] <= storage)
                 => ret.val = fields[ret.field] % Pow2(bit_sizes[ret.field])

\* C8. Mask: every mask computed from a width b with 1 <= b <= W, in new or in
\* an accessor, is 2^b - 1, computed without overflow; b = W included.
MaskIsLowBits ==
    mask.bits <= storage => mask.val = Pow2(mask.bits) - 1

\* C9. Collision-free packing: in a declaration whose widths sum to at most W,
\* an iteration of the constructor loop finds no bit of the accumulator set at
\* or above its offset, ORs in a value whose set bits all lie in
\* [offset, offset + width), and so adds that value to the accumulator.
CollisionFree ==
    [][(Fits(storage, bit_sizes) /\ pc = "new" /\ i' = i + 1)
          => /\ packed < Pow2(offset)
             /\ contrib' % Pow2(offset) = 0
             /\ contrib' < Pow2(offset + bit_sizes[i + 1])
             /\ BitAnd(packed, contrib') = 0
             /\ packed' = packed + contrib']_vars

\* The loop has just OR-ed a non-zero contribution of a later field onto a
\* non-zero accumulator.
CollisionFreeWitness ==
    /\ Fits(storage, bit_sizes)
    /\ pc = "new"
    /\ i >= 2
    /\ contrib > 0
    /\ packed > contrib

\* C10. Offset agreement: the offset at which the constructor loop writes a
\* field and the offset from which the field's accessor reads are both the sum
\* of the widths declared before it; the first field's accessor reads at 0.
OffsetAgreement ==
    (pc = "new" /\ i < Len(bit_sizes))
        => /\ offset = OffsetOf(i + 1)
           /\ i >= 1 => GetterOffset(bit_sizes, i + 1) = OffsetOf(i + 1)

\* The loop is about to write a third or later field.
OffsetAgreementWitness ==
    /\ pc = "new"
    /\ i >= 2
    /\ i < Len(bit_sizes)
    /\ offset > bit_sizes[i]

====
